---- MODULE Spec2Model ----
(***************************************************************************)
(* Model of the Ansible operation pipeline of platform-ci-v2: the ledger   *)
(* ("ansible state") load / merge / upload scripts, the inventory builder  *)
(* and the pre-check, as run by one or more pipeline runs against one      *)
(* object-storage bucket.                                                  *)
(***************************************************************************)
EXTENDS Integers, Sequences, FiniteSets, TLC

\* ------------------------------------------------------------------ bounds

\* Number of logical keys the manifests and ledgers range over.
NumKeys == 2
\* Longest vm_resources / adb_resources list of a manifest given to the merge.
MaxTargets == 1

Keys == 1..NumKeys

\* ------------------------------------------------------ program constants

\* "last_updated": None of a freshly initialised ledger; real clock
\* readings are 1, 2, ...
NoneTime == 0

OpTypes == {"agent-install", "adb-lifecycle"}
AgentTypes == {"agentX"}
DefaultVersion == "1.0.0"
Actions == {"start"}

\* ------------------------------------------------------------ manifests

\* A vm_resources element: {"logical_key": k, "agents": [{"type", "version"}]}.
VmTargets ==
  [logical_key : Keys,
   agents : {<<[type |-> a, version |-> DefaultVersion]>> : a \in AgentTypes}]

\* An adb_resources element: {"logical_key": k, "action": a}.
AdbTargets == [logical_key : Keys, action : Actions]

SeqsUpTo(S, n) == UNION {[1..m -> S] : m \in 0..n}

\* dict.get(field) of a field the JSON object does not hold.
None == "None"

Get(rec, field, default) == IF field \in DOMAIN rec THEN rec[field] ELSE default

\* manifest.get('operation_type').
OperationType(manifest) == Get(manifest, "operation_type", None)

\* The manifest without its 'operation_type'.
Untyped(manifest) ==
  [f \in DOMAIN manifest \ {"operation_type"} |-> manifest[f]]

\* --------------------------------------------------------------- state

VARIABLES
  \* update_state on its own
  mLedgers,   \* <<ledger given, ledger after call 1, ledger after call 2>>
  mTimes,     \* clock reading of each call
  mManifest,  \* the manifest of both calls
  mRaised,    \* a call raised KeyError
  \* the bucket
  serialized, \* the orchestrator starts a run only when no other is active
  store,      \* ledger key -> ledger object
  tfstate,    \* the terraform.tfstate object
  clock,      \* the next reading of datetime.utcnow()
  \* one pipeline run
  pc,            \* the step the run is at
  cfg,           \* its arguments: manifest, cloud, namespace, state_key, host
  inventoryFile, \* /tmp/inventory.json as the run finds it on its host
  stateFile,     \* /tmp/ansible-state.json as the run finds it on its host
  precheck,      \* what the pre-check printed: missing, skipped
  executed,      \* hosts the executor ran successfully
  mem,           \* the state dict of the update step
  uploads,       \* put_object calls that replaced the ledger object
  seen,          \* runs whose upload preceded this run's load of the same key
  mergeTime,     \* clock reading of the run's merge
  \* history
  loadStatus,    \* what the load step met
  uploadOrder,   \* the runs in the order of their uploads
  \* the inventory scripts and the pre-check on their own
  iIn,           \* manifest, terraform.tfstate object, cloud, environment
  iPc,           \* the script to run next
  iResources,    \* resources_map of ansible_generate_inventory.py
  iInventory,    \* /tmp/inventory.json of ansible_generate_inventory.py
  iPrecheck,     \* what the pre-check printed
  iAdb,          \* exit code and inventory of scripts_python/ansible_inventory.py
  \* the discovery scripts on their own
  dIn,           \* arguments, working directory, environment, operation file
  dPc,           \* the script to run next
  dBackend,      \* exit code and outputs of discover_backend.py
  dOperation,    \* exit code and outputs of ansible_discover_operation.py
  \* tagging and the pre-check of later runs
  tIn,           \* the manifest of the current run
  tPc,           \* the number of the current run and the step to run next
  tCloud,        \* the resources of the tenancy with their freeform tags,
                 \* and the terraform.tfstate written from them
  tInventory,    \* /tmp/inventory.json of the current run
  tPrecheck,     \* what the pre-check of the current run printed
  tTagged        \* <<resource id, agent type>> pairs that runs have tagged

mvars == <<mLedgers, mTimes, mManifest, mRaised>>

bvars == <<serialized, store, tfstate, clock>>

rvars == <<pc, cfg, inventoryFile, stateFile, precheck, executed, mem,
           uploads, seen, mergeTime>>

hvars == <<loadStatus, uploadOrder>>

ivars == <<iIn, iPc, iResources, iInventory, iPrecheck, iAdb>>

dvars == <<dIn, dPc, dBackend, dOperation>>

tvars == <<tIn, tPc, tCloud, tInventory, tPrecheck, tTagged>>

vars == <<mvars, bvars, rvars, hvars, ivars, dvars, tvars>>

\* ------------------------------------------------------------- ledgers

EmptyMap == <<>>

\* An OperationRecord as a previous run of the other resource kind left it.
OldRecord(op) ==
  [completed |-> 1, status |-> "success", action |-> "start", version |-> DefaultVersion]

\* A resource entry that is valid JSON but has no "operations" member.
MalformedEntry == [note |-> "no operations"]

SetField(rec, name, val) ==
  [f \in DOMAIN rec \cup {name} |-> IF f = name THEN val ELSE rec[f]]

Put(map, k, val) ==
  [x \in DOMAIN map \cup {k} |-> IF x = k THEN val ELSE map[x]]

\* ------------------------------------------------------------ update_state

\* agents_info: agent type -> {version, installed_at}; a later agent of the
\* same type replaces an earlier one.
RECURSIVE AgentsInfo(_, _)
AgentsInfo(agents, now) ==
  IF agents = <<>> THEN EmptyMap
  ELSE LET n == Len(agents)
           a == agents[n]
       IN Put(AgentsInfo(SubSeq(agents, 1, n - 1), now), a.type,
              [version |-> a.version, installed_at |-> now])

VmRecord(target, version, now) ==
  [completed |-> now, status |-> "success", version |-> version,
   agents |-> AgentsInfo(target.agents, now)]

AdbRecord(target, version, now) ==
  [completed |-> now, status |-> "success", action |-> target.action,
   version |-> version]

\* Upsert as a rebuild: the ledger's resources are replaced by the target's
\* entry alone.
UpsertRebuild(res, k, op, rec) ==
  [raised |-> FALSE, resources |-> (k :> [operations |-> (op :> rec)])]

\* Upsert as a shallow dict update: the target's entry is replaced by one
\* holding the manifest's operation alone.
UpsertShallow(res, k, op, rec) ==
  IF res.raised THEN res
  ELSE [raised |-> FALSE,
        resources |-> Put(res.resources, k, [operations |-> (op :> rec)])]

\* Upsert as setdefault: a record the entry already holds for the operation
\* type is kept.
UpsertKeep(res, k, op, rec) ==
  LET cur == IF k \in DOMAIN res.resources THEN res.resources[k]
             ELSE [operations |-> EmptyMap]
  IN IF res.raised THEN res
     ELSE IF "operations" \notin DOMAIN cur
          THEN [raised |-> TRUE, resources |-> res.resources]
          ELSE [raised |-> FALSE,
                resources |-> Put(res.resources, k,
                   [cur EXCEPT !.operations =
                      IF op \in DOMAIN @ THEN @ ELSE Put(@, op, rec)])]

\* state['resources'][logical_key]['operations'][operation_type] = record,
\* after creating {'operations': {}} for a key the ledger does not hold.
\* res is [raised, resources]; raised is the KeyError of an entry without
\* 'operations'.
Upsert(res, k, op, rec) ==
  LET cur == IF k \in DOMAIN res.resources THEN res.resources[k]
             ELSE [operations |-> EmptyMap]
  IN IF res.raised THEN res
     ELSE IF "operations" \notin DOMAIN cur
          THEN [raised |-> TRUE, resources |-> Put(res.resources, k, cur)]
          ELSE [raised |-> FALSE,
                resources |-> Put(res.resources, k,
                                  [cur EXCEPT !.operations = Put(@, op, rec)])]

RECURSIVE UpdateVmResources(_, _, _, _, _)
UpdateVmResources(res, targets, op, version, now) ==
  IF targets = <<>> THEN res
  ELSE UpdateVmResources(
         Upsert(res, Head(targets).logical_key, op,
                VmRecord(Head(targets), version, now)),
         Tail(targets), op, version, now)

RECURSIVE UpdateAdbResources(_, _, _, _, _)
UpdateAdbResources(res, targets, op, version, now) ==
  IF targets = <<>> THEN res
  ELSE UpdateAdbResources(
         Upsert(res, Head(targets).logical_key, op,
                AdbRecord(Head(targets), version, now)),
         Tail(targets), op, version, now)

\* update_state that starts from an empty resources map.
UpdateStateFromEmpty(state, manifest, now) ==
  LET stamped == SetField(state, "last_updated", now)
      vm == UpdateVmResources([raised |-> FALSE, resources |-> EmptyMap],
                              manifest.vm_resources, OperationType(manifest),
                              manifest.operation_version, now)
      adb == UpdateAdbResources(vm, manifest.adb_resources,
                                OperationType(manifest),
                                manifest.operation_version, now)
  IN [raised |-> adb.raised,
      state |-> [stamped EXCEPT !.resources = adb.resources]]

\* update_state(state, manifest) at clock reading now: [raised, state].
\* The clock is read once per call: the readings of one call are
\* microseconds apart and only the order between calls is observable.
UpdateState(state, manifest, now) ==
  LET stamped == SetField(state, "last_updated", now)
      vm == UpdateVmResources([raised |-> FALSE, resources |-> state.resources],
                              manifest.vm_resources, OperationType(manifest),
                              manifest.operation_version, now)
      adb == UpdateAdbResources(vm, manifest.adb_resources,
                                OperationType(manifest),
                                manifest.operation_version, now)
  IN [raised |-> adb.raised,
      state |-> [stamped EXCEPT !.resources = adb.resources]]

TargetKeys(manifest) ==
  {manifest.vm_resources[i].logical_key : i \in DOMAIN manifest.vm_resources}
  \cup {manifest.adb_resources[i].logical_key : i \in DOMAIN manifest.adb_resources}

\* ------------------------------------------------- Terraform state snapshot

\* Python truthiness of an optional string.
Truthy(x) == x \notin {None, ""}

Ocid(k) == [ocid |-> k]

\* The snapshot of the pipeline runs: key 1 is a compute instance with a
\* private IP, key 2 an autonomous database; any further key is not
\* provisioned.
ComputeResource(k) ==
  [type |-> "oci_core_instance", name |-> k,
   instances |-> <<[attributes |->
      [display_name |-> k, id |-> Ocid(k), private_ip |-> "10.0.0.1",
       state |-> "RUNNING", freeform_tags |-> EmptyMap]]>>]

AdbResource(k) ==
  [type |-> "oci_database_autonomous_database", name |-> k,
   instances |-> <<[attributes |->
      [display_name |-> k, id |-> Ocid(k), db_name |-> "db",
       lifecycle_state |-> "AVAILABLE", freeform_tags |-> EmptyMap]]>>]

Snapshot == [resources |-> <<ComputeResource(1), AdbResource(2)>>]

\* What parse_terraform_outputs stores for one instance, or nothing for a
\* resource type it does not know.
ResourceInfo(resource, instance) ==
  LET attrs == Get(instance, "attributes", EmptyMap)
      key == Get(attrs, "display_name", resource.name)
  IN IF resource.type = "oci_core_instance"
     THEN (key :> [type |-> "compute",
                   ocid |-> Get(attrs, "id", None),
                   private_ip |-> Get(attrs, "private_ip", None),
                   public_ip |-> Get(attrs, "public_ip", None),
                   state |-> Get(attrs, "state", None),
                   defined_tags |-> Get(attrs, "defined_tags", EmptyMap),
                   freeform_tags |-> Get(attrs, "freeform_tags", EmptyMap)])
     ELSE IF resource.type = "oci_database_autonomous_database"
     THEN (key :> [type |-> "adb",
                   ocid |-> Get(attrs, "id", None),
                   db_name |-> Get(attrs, "db_name", None),
                   state |-> Get(attrs, "lifecycle_state", None),
                   connection_urls |-> Get(attrs, "connection_urls", EmptyMap),
                   defined_tags |-> Get(attrs, "defined_tags", EmptyMap),
                   freeform_tags |-> Get(attrs, "freeform_tags", EmptyMap)])
     ELSE EmptyMap

RECURSIVE ParseInstances(_, _, _)
ParseInstances(map, resource, instances) ==
  IF instances = <<>> THEN map
  ELSE ParseInstances(ResourceInfo(resource, Head(instances)) @@ map,
                      resource, Tail(instances))

RECURSIVE ParseResources(_, _)
ParseResources(map, resources) ==
  IF resources = <<>> THEN map
  ELSE ParseResources(
         ParseInstances(map, Head(resources),
                        Get(Head(resources), "instances", <<>>)),
         Tail(resources))

\* download_terraform_state returns None for a snapshot it could not fetch
\* or parse.
NoData == [none |-> TRUE]

\* parse_terraform_outputs(state_data): logical key -> resource info.
ParseTerraformOutputs(state_data) ==
  IF state_data = NoData THEN EmptyMap
  ELSE ParseResources(EmptyMap, Get(state_data, "resources", <<>>))

\* ---------------------------------------------------- build_ansible_inventory

EmptyInventory ==
  [hostvars |-> EmptyMap, compute_instances |-> <<>>, adb_instances |-> <<>>]

AddVmTargetAnyAddress(inventory, target, resources_map) ==
  LET k == target.logical_key
  IN IF k \notin DOMAIN resources_map THEN inventory
     ELSE [inventory EXCEPT
             !.compute_instances = Append(@, k),
             !.hostvars = Put(@, k,
                [ansible_host |-> Get(resources_map[k], "private_ip", None),
                 agents |-> Get(target, "agents", <<>>),
                 resource_tags |-> Get(resources_map[k], "freeform_tags", EmptyMap)])]

AddVmTarget(inventory, target, resources_map) ==
  LET k == target.logical_key
      info == resources_map[k]
      ansible_host == Get(info, "private_ip", None)
      ssh_config == Get(target, "ssh_config", EmptyMap)
  IN IF k \notin DOMAIN resources_map THEN inventory
     ELSE IF ~Truthy(ansible_host) THEN inventory
     ELSE [inventory EXCEPT
             !.compute_instances = Append(@, k),
             !.hostvars = Put(@, k,
                [ansible_host |-> ansible_host,
                 ansible_user |-> Get(ssh_config, "user", "opc"),
                 ansible_become |-> Get(ssh_config, "become", TRUE),
                 ansible_become_user |-> Get(ssh_config, "become_user", "root"),
                 ansible_python_interpreter |-> "/usr/bin/python3",
                 oci_ocid |-> Get(info, "ocid", None),
                 oci_state |-> Get(info, "state", None),
                 agents |-> Get(target, "agents", <<>>),
                 resource_tags |-> Get(info, "freeform_tags", EmptyMap)])]

AddAdbTarget(inventory, target, resources_map) ==
  LET k == target.logical_key
      info == resources_map[k]
  IN IF k \notin DOMAIN resources_map THEN inventory
     ELSE [inventory EXCEPT
             !.adb_instances = Append(@, k),
             !.hostvars = Put(@, k,
                [ansible_connection |-> "local",
                 oci_ocid |-> Get(info, "ocid", None),
                 oci_state |-> Get(info, "state", None),
                 db_name |-> Get(info, "db_name", None),
                 action |-> Get(target, "action", None),
                 wait_for_state |-> Get(target, "wait_for_state", TRUE),
                 timeout_minutes |-> Get(target, "timeout_minutes", 30),
                 resource_tags |-> Get(info, "freeform_tags", EmptyMap)])]

RECURSIVE AddVmTargetsReversed(_, _, _)
AddVmTargetsReversed(inventory, targets, resources_map) ==
  IF targets = <<>> THEN inventory
  ELSE AddVmTargetsReversed(
         AddVmTarget(inventory, targets[Len(targets)], resources_map),
         SubSeq(targets, 1, Len(targets) - 1), resources_map)

RECURSIVE AddVmTargets(_, _, _)
AddVmTargets(inventory, targets, resources_map) ==
  IF targets = <<>> THEN inventory
  ELSE AddVmTargets(AddVmTarget(inventory, Head(targets), resources_map),
                    Tail(targets), resources_map)

RECURSIVE AddAdbTargets(_, _, _)
AddAdbTargets(inventory, targets, resources_map) ==
  IF targets = <<>> THEN inventory
  ELSE AddAdbTargets(AddAdbTarget(inventory, Head(targets), resources_map),
                     Tail(targets), resources_map)

\* build_ansible_inventory(manifest, resources_map): the VM targets, then
\* the ADB targets.
BuildAnsibleInventory(manifest, resources_map) ==
  AddAdbTargets(
    AddVmTargets(EmptyInventory, manifest.vm_resources, resources_map),
    manifest.adb_resources, resources_map)

InventoryHosts(inventory) ==
  {inventory.compute_instances[i] : i \in DOMAIN inventory.compute_instances}
  \cup {inventory.adb_instances[i] : i \in DOMAIN inventory.adb_instances}

\* ------------------------------------- scripts_python/ansible_inventory.py

\* parse_adb_resources(state_data): display name -> info, of the autonomous
\* databases only.
AdbInfo(resource, instance) ==
  LET attrs == Get(instance, "attributes", EmptyMap)
      display_name == Get(attrs, "display_name", Get(resource, "name", None))
  IN (display_name :> [ocid |-> Get(attrs, "id", None),
                       db_name |-> Get(attrs, "db_name", None),
                       state |-> Get(attrs, "lifecycle_state", None),
                       freeform_tags |-> Get(attrs, "freeform_tags", EmptyMap)])

RECURSIVE ParseAdbInstances(_, _, _)
ParseAdbInstances(map, resource, instances) ==
  IF instances = <<>> THEN map
  ELSE ParseAdbInstances(AdbInfo(resource, Head(instances)) @@ map,
                         resource, Tail(instances))

RECURSIVE ParseAdbList(_, _)
ParseAdbList(map, resources) ==
  IF resources = <<>> THEN map
  ELSE IF Get(Head(resources), "type", None) # "oci_database_autonomous_database"
  THEN ParseAdbList(map, Tail(resources))
  ELSE ParseAdbList(
         ParseAdbInstances(map, Head(resources),
                           Get(Head(resources), "instances", <<>>)),
         Tail(resources))

ParseAdbResources(state_data) ==
  IF state_data = NoData THEN EmptyMap
  ELSE ParseAdbList(EmptyMap, Get(state_data, "resources", <<>>))

\* The hosts dict keeps its keys in the order of their first insertion.
Insert(hosts, name) ==
  IF \E i \in DOMAIN hosts : hosts[i] = name THEN hosts ELSE Append(hosts, name)

\* build_inventory(manifest, adb_map): exits with 1 at the first target
\* whose display_name is not in adb_map.
RECURSIVE AddTargets(_, _, _)
AddTargets(inventory, targets, adb_map) ==
  IF targets = <<>> THEN [exit |-> 0, inventory |-> inventory]
  ELSE LET adb_target == Head(targets)
           name == Get(adb_target, "display_name", None)
       IN IF name \notin DOMAIN adb_map THEN [exit |-> 1]
          ELSE AddTargets(
                 [inventory EXCEPT
                    !.adb_instances = Insert(@, name),
                    !.hostvars = Put(@, name,
                       [ansible_connection |-> "local",
                        oci_ocid |-> adb_map[name].ocid,
                        oci_state |-> adb_map[name].state,
                        db_name |-> adb_map[name].db_name,
                        action |-> Get(adb_target, "action", None),
                        wait_for_state |-> Get(adb_target, "wait_for_state", TRUE),
                        timeout_minutes |-> Get(adb_target, "timeout_minutes", 30)])],
                 Tail(targets), adb_map)

BuildInventory(manifest, adb_map) ==
  AddTargets([hostvars |-> EmptyMap, adb_instances |-> <<>>],
             Get(manifest, "targets", <<>>), adb_map)

\* ------------------------------------------------------------- pre-check

HostVars(inventory, k) == Get(inventory.hostvars, k, EmptyMap)

\* The "<logical_key> (<agent_type>)" entries check_skip_if_installed
\* collects for one VM target.
RECURSIVE SkippedAgents(_, _, _)
SkippedAgents(k, agents, resource_tags) ==
  IF agents = <<>> THEN <<>>
  ELSE LET tag_key == Head(agents).type \o "_agent_installed"
       IN (IF Get(resource_tags, tag_key, None) = "true"
           THEN <<<<k, Head(agents).type>>>> ELSE <<>>)
          \o SkippedAgents(k, Tail(agents), resource_tags)

RECURSIVE SkippedTargets(_, _)
SkippedTargets(targets, inventory) ==
  IF targets = <<>> THEN <<>>
  ELSE LET k == Head(targets).logical_key
           tags == Get(HostVars(inventory, k), "resource_tags", EmptyMap)
       IN SkippedAgents(k, Get(Head(targets), "agents", <<>>), tags)
          \o SkippedTargets(Tail(targets), inventory)

\* check_skip_if_installed(manifest, inventory, state): the list it prints as
\* "Skipping already installed"; its return value is True in every case and
\* state is not read.
CheckSkipIfInstalled(manifest, inventory, state) ==
  IF ~Get(Get(manifest, "pre_checks", EmptyMap), "skip_if_installed", FALSE)
  THEN <<>>
  ELSE SkippedTargets(manifest.vm_resources, inventory)

\* check_targets_exist(manifest, inventory): the targets it warns about.
CheckTargetsExist(manifest, inventory) ==
  {k \in TargetKeys(manifest) : k \notin DOMAIN inventory.hostvars}

\* --------------------------------------------------------- object storage

Absent == [exists |-> FALSE]
Garbage == [exists |-> TRUE, parseable |-> FALSE]
Obj(data) == [exists |-> TRUE, parseable |-> TRUE, data |-> data]

\* client.get_object: the response, or the ServiceError status.
GetObject(bucket, key, fault) ==
  IF fault THEN [status |-> 500]
  ELSE IF ~bucket[key].exists THEN [status |-> 404]
  ELSE [status |-> 200, body |-> bucket[key]]

\* client.put_object: the whole object is replaced.
PutObjectMerging(bucket, key, data) ==
  IF bucket[key].exists /\ bucket[key].parseable
  THEN [bucket EXCEPT ![key] =
          Obj([data EXCEPT !.resources = @ @@ bucket[key].data.resources])]
  ELSE [bucket EXCEPT ![key] = Obj(data)]

PutObject(bucket, key, data) == [bucket EXCEPT ![key] = Obj(data)]

\* ------------------------------------------------------ load_ansible_state

EmptyLedger ==
  [version |-> "1.0.0", last_updated |-> NoneTime, resources |-> EmptyMap]

\* load_ansible_state on a get_object response: [raised, state].
LoadAnsibleStateLenient(resp) ==
  IF resp.status = 200 /\ resp.body.parseable
  THEN [raised |-> FALSE, state |-> resp.body.data]
  ELSE [raised |-> FALSE, state |-> EmptyLedger]

LoadAnsibleStateStrict(resp) ==
  IF resp.status = 200 /\ resp.body.parseable
  THEN [raised |-> FALSE, state |-> resp.body.data]
  ELSE [raised |-> TRUE]

LoadAnsibleStateFresh(resp) ==
  IF resp.status = 200 /\ ~resp.body.parseable THEN [raised |-> TRUE]
  ELSE IF resp.status \in {200, 404}
  THEN [raised |-> FALSE, state |-> EmptyLedger]
  ELSE [raised |-> TRUE]

LoadAnsibleState(resp) ==
  IF resp.status = 200
  THEN IF resp.body.parseable
       THEN [raised |-> FALSE, state |-> resp.body.data]
       ELSE [raised |-> TRUE]
  ELSE IF resp.status = 404
  THEN [raised |-> FALSE, state |-> EmptyLedger]
  ELSE [raised |-> TRUE]

\* ------------------------------------------------------- build_state_key

\* One key for every operation type.
BuildStateKeyUntyped(repo_name, config_path, operation_type) ==
  repo_name \o "/ansible/" \o config_path \o "/ansible-state.json"

\* The key without the "ansible" segment.
BuildStateKeyFlat(repo_name, config_path, operation_type) ==
  repo_name \o "/" \o config_path \o "/ansible-state-"
  \o operation_type \o ".json"

BuildStateKey(repo_name, config_path, operation_type) ==
  repo_name \o "/ansible/" \o config_path \o "/ansible-state-"
  \o operation_type \o ".json"

\* ---------------------------------------------------------------------
\* The pipeline: runs of discover, inventory, load, pre-check, execution
\* and update against one bucket.
\* ---------------------------------------------------------------------

\* Number of pipeline runs.
NumRuns == 2

Runs == 1..NumRuns
RacingRuns == {1, 2}

Bucket == "repo"

\* The hosts the orchestrator runs the steps of a run on.  The run with
\* number r is placed on one of the first r; serialized runs are never
\* active together, so their placement shows in nothing and they are all
\* placed on the first host.
Hosts == <<"runner-1", "runner-2">>
HostsOf(r) ==
  IF serialized THEN {Hosts[1]}
  ELSE {Hosts[i] : i \in {j \in DOMAIN Hosts : j <= r}}
Clouds == {"oci", "azure"}

\* find_operation_folder: {cloud}/{region} of the operation file's path.
ConfigPath(cloud) == cloud \o "/eu-frankfurt-1"

TfStateKey(bucket, config_path) ==
  bucket \o "/" \o config_path \o "/terraform.tfstate"

LedgerKeys == {BuildStateKey(Bucket, ConfigPath("oci"), op) : op \in OpTypes}

\* The manifests of the runs: an agent installation on one VM, or a
\* lifecycle action on one database, with skip_if_installed requested.
PipelineManifest(op, k) ==
  [operation_type |-> op,
   operation_version |-> DefaultVersion,
   vm_resources |->
     IF op = "agent-install"
     THEN <<[logical_key |-> k,
             agents |-> <<[type |-> "agentX", version |-> DefaultVersion]>>]>>
     ELSE <<>>,
   adb_resources |->
     IF op = "adb-lifecycle" THEN <<[logical_key |-> k, action |-> "start"]>>
     ELSE <<>>,
   pre_checks |-> [skip_if_installed |-> TRUE]]

PipelineManifests == {PipelineManifest(op, k) : op \in OpTypes, k \in Keys}

NoFile == [exists |-> FALSE]
NoCfg == [exists |-> FALSE]
NoPrecheck == [missing |-> {}, skipped |-> <<>>]

\* The inventory scripts are not run on their own.
InventoryIdle ==
  /\ iIn = NoCfg
  /\ iPc = "idle"
  /\ iResources = EmptyMap
  /\ iInventory = NoFile
  /\ iPrecheck = NoPrecheck
  /\ iAdb = NoFile

\* The discovery scripts are not run on their own.
DiscoverIdle ==
  /\ dIn = NoCfg
  /\ dPc = "idle"
  /\ dBackend = NoFile
  /\ dOperation = NoFile

\* No resource is tagged and no later run follows.
TagsIdle ==
  /\ tIn = NoCfg
  /\ tPc = [run |-> 0, step |-> "idle"]
  /\ tCloud = NoFile
  /\ tInventory = NoFile
  /\ tPrecheck = NoPrecheck
  /\ tTagged = {}

\* A ledger object as it may lie in the bucket before the first run: none,
\* one that is not JSON, or one with an entry that has no 'operations'
\* (Init damages at most one of the ledger objects).
InitialObjects ==
  {Absent, Garbage,
   Obj([version |-> DefaultVersion, last_updated |-> 1,
        resources |-> (1 :> MalformedEntry)])}

Init ==
  /\ mLedgers = <<>>
  /\ mTimes = <<>>
  /\ mManifest = NoCfg
  /\ mRaised = FALSE
  /\ serialized \in BOOLEAN
  /\ store \in {b \in [LedgerKeys -> InitialObjects] :
                  Cardinality({k \in LedgerKeys : b[k] # Absent}) <= 1}
  /\ tfstate = [k \in {TfStateKey(Bucket, ConfigPath("oci"))} |-> Obj(Snapshot)]
  /\ clock = 2
  /\ pc = [r \in Runs |-> "idle"]
  /\ cfg = [r \in Runs |-> NoCfg]
  /\ inventoryFile = [r \in Runs |-> NoFile]
  /\ stateFile = [r \in Runs |-> NoFile]
  /\ precheck = [r \in Runs |-> NoPrecheck]
  /\ executed = [r \in Runs |-> {}]
  /\ mem = [r \in Runs |-> NoFile]
  /\ uploads = [r \in Runs |-> 0]
  /\ loadStatus = [r \in Runs |-> ""]
  /\ seen = [r \in Runs |-> {}]
  /\ mergeTime = [r \in Runs |-> NoneTime]
  /\ uploadOrder = <<>>
  /\ InventoryIdle
  /\ DiscoverIdle
  /\ TagsIdle

Active(r) == pc[r] \notin {"idle", "done", "failed"}

Goto(r, step) == pc' = [pc EXCEPT ![r] = step]

\* The step exits with a failure and the run stops: no later step of the
\* run is started and nothing reads its workspace again.
Fails(r) ==
  /\ pc' = [pc EXCEPT ![r] = "failed"]
  /\ cfg' = [cfg EXCEPT ![r] = NoCfg]
  /\ inventoryFile' = [inventoryFile EXCEPT ![r] = NoFile]
  /\ stateFile' = [stateFile EXCEPT ![r] = NoFile]
  /\ precheck' = [precheck EXCEPT ![r] = NoPrecheck]
  /\ executed' = [executed EXCEPT ![r] = {}]
  /\ mem' = [mem EXCEPT ![r] = NoFile]
  /\ seen' = [seen EXCEPT ![r] = {}]
  /\ mergeTime' = [mergeTime EXCEPT ![r] = NoneTime]

\* The file at a fixed path of run r's host after r wrote content to it:
\* every active run on that host finds the content there.
WriteFile(file, r, content) ==
  [s \in Runs |->
     IF s = r \/ (Active(s) /\ cfg[s].host = cfg[r].host) THEN content
     ELSE file[s]]

\* The step ends and the next one starts, with the files in files written.
Goes(r, step, files) ==
  /\ pc' = [pc EXCEPT ![r] = step]
  /\ inventoryFile' = IF "inventory" \in DOMAIN files
                       THEN WriteFile(inventoryFile, r, files.inventory)
                       ELSE inventoryFile
  /\ stateFile' = IF "state" \in DOMAIN files
                   THEN WriteFile(stateFile, r, files.state)
                   ELSE stateFile
  /\ precheck' = [precheck EXCEPT ![r] = Get(files, "precheck", @)]
  /\ executed' = [executed EXCEPT ![r] = Get(files, "executed", @)]
  /\ mem' = [mem EXCEPT ![r] = Get(files, "mem", @)]
  /\ seen' = [seen EXCEPT ![r] = Get(files, "seen", @)]
  /\ mergeTime' = [mergeTime EXCEPT ![r] = Get(files, "mergeTime", @)]
  /\ UNCHANGED cfg

\* ansible_discover_operation.py main: the run's arguments and state key.
\* Runs start in the order of their numbers; a serializing orchestrator
\* starts one only when no other is active, and without serialization two
\* runs race.
Discover(r) ==
  /\ pc[r] = "idle"
  /\ \A s \in Runs : s < r => pc[s] # "idle"
  /\ serialized => \A s \in Runs \ {r} : ~Active(s)
  /\ ~serialized => r \in RacingRuns
  /\ \E m \in PipelineManifests \cup {Untyped(x) : x \in PipelineManifests},
        c \in Clouds, ns \in BOOLEAN, h \in HostsOf(r) :
       IF OperationType(m) = None
       THEN Fails(r)
       ELSE /\ cfg' = [cfg EXCEPT ![r] =
                        [manifest |-> m, cloud |-> c, namespace |-> ns,
                         host |-> h,
                         state_key |-> BuildStateKey(Bucket, ConfigPath(c),
                                                     OperationType(m))]]
            /\ Goto(r, "inventory")
            /\ UNCHANGED <<inventoryFile, stateFile, precheck, executed, mem,
                           seen, mergeTime>>
  /\ UNCHANGED <<mvars, ivars, dvars, tvars, bvars, hvars, uploads>>

\* download_terraform_state on a get_object response: the parsed snapshot,
\* or None.
DownloadTerraformState(resp) ==
  IF resp.status = 200 /\ resp.body.parseable THEN resp.body.data ELSE NoData

\* utils.download_from_bucket: the content of the object, nothing when there
\* is no object, and a failure of the script on any other storage answer.
DownloadFromBucket(resp) ==
  IF resp.status = 200 THEN [failed |-> FALSE, content |-> resp.body]
  ELSE IF resp.status = 404 THEN [failed |-> FALSE, content |-> Absent]
  ELSE [failed |-> TRUE]

\* download_terraform_state(namespace, bucket, config_path) of
\* scripts_python/ansible_inventory.py, on the downloaded content.
DownloadAdbState(content) ==
  IF content.exists /\ content.parseable THEN content.data ELSE NoData

\* main of scripts_python/ansible_inventory.py.
AnsibleInventoryMain(cloud, namespace, resp, manifest) ==
  IF ~namespace THEN [exit |-> 1]
  ELSE IF cloud # "oci" THEN [exit |-> 1]
  ELSE LET got == DownloadFromBucket(resp)
       IN IF got.failed THEN [exit |-> 1]
          ELSE BuildInventory(manifest,
                              ParseAdbResources(DownloadAdbState(got.content)))

\* ansible_generate_inventory.py main, up to resources_map: the parsed
\* snapshot, or an empty map when the snapshot is not downloaded.
LoadResourcesMap(cloud, namespace, clientOk, resp) ==
  ParseTerraformOutputs(IF cloud = "oci" /\ clientOk /\ namespace
                        THEN DownloadTerraformState(resp)
                        ELSE NoData)

\* ansible_generate_inventory.py main, up to the inventory it saves: resp is
\* what get_object answers when the script asks.
InventoryMain(cloud, namespace, clientOk, resp, manifest) ==
  BuildAnsibleInventory(manifest,
                        LoadResourcesMap(cloud, namespace, clientOk, resp))

\* ansible_generate_inventory.py main.
GenerateInventory(r) ==
  /\ pc[r] = "inventory"
  /\ \E clientOk \in BOOLEAN, fault \in BOOLEAN :
       LET c == cfg[r]
           resp == GetObject(tfstate, TfStateKey(Bucket, ConfigPath(c.cloud)),
                             fault)
       IN Goes(r, "load",
               [inventory |-> InventoryMain(c.cloud, c.namespace, clientOk,
                                             resp, c.manifest)])
  /\ UNCHANGED <<mvars, ivars, dvars, tvars, bvars, hvars, uploads>>

\* The bucket after the load step: load_ansible_state only reads.
StoreAfterLoadCreating(bucket, key, resp) ==
  IF resp.status = 404 THEN PutObject(bucket, key, EmptyLedger) ELSE bucket

StoreAfterLoad(bucket, key, resp) == bucket

UploadedTo(key) ==
  {uploadOrder[i] : i \in {j \in DOMAIN uploadOrder :
                             cfg[uploadOrder[j]].state_key = key}}

\* What get_object answered.
Met(resp) ==
  IF resp.status = 200
  THEN IF resp.body.parseable THEN "found" ELSE "unparseable"
  ELSE IF resp.status = 404 THEN "not found" ELSE "storage error"

\* ansible_load_state.py main.
LoadState(r) ==
  /\ pc[r] = "load"
  /\ LET c == cfg[r] IN
     IF ~c.namespace
     THEN /\ Fails(r)
          /\ loadStatus' = [loadStatus EXCEPT ![r] = "no namespace"]
          /\ UNCHANGED store
     ELSE IF c.cloud = "oci"
     THEN \E clientOk \in BOOLEAN, fault \in BOOLEAN :
            LET resp == GetObject(store, c.state_key, fault)
                out == LoadAnsibleState(resp)
            IN IF ~clientOk
               THEN /\ Fails(r)
                    /\ loadStatus' = [loadStatus EXCEPT ![r] = "no client"]
                    /\ UNCHANGED store
               ELSE /\ store' = StoreAfterLoad(store, c.state_key, resp)
                    /\ loadStatus' = [loadStatus EXCEPT ![r] = Met(resp)]
                    /\ IF out.raised
                       THEN Fails(r)
                       ELSE Goes(r, "precheck",
                                 [state |-> out.state,
                                  seen |-> UploadedTo(c.state_key)])
     ELSE /\ Goes(r, "precheck",
                  [state |-> [version |-> "1.0.0", resources |-> EmptyMap]])
          /\ loadStatus' = [loadStatus EXCEPT ![r] = "not oci"]
          /\ UNCHANGED store
  /\ UNCHANGED <<mvars, ivars, dvars, tvars, serialized, tfstate, clock, uploads, uploadOrder>>

\* ansible_precheck.py main: the three checks print and pass.
Precheck(r) ==
  /\ pc[r] = "precheck"
  /\ Goes(r, "execute",
          [precheck |->
             [missing |-> CheckTargetsExist(cfg[r].manifest, inventoryFile[r]),
              skipped |-> CheckSkipIfInstalled(cfg[r].manifest,
                                               inventoryFile[r], stateFile[r])]])
  /\ UNCHANGED <<mvars, ivars, dvars, tvars, bvars, hvars, uploads>>

\* The executor runs the playbook on the hosts of the inventory; the update
\* step follows a successful execution only.
Execute(r) ==
  /\ pc[r] = "execute"
  /\ \E ok \in BOOLEAN :
       IF ok
       THEN Goes(r, "update", [executed |-> InventoryHosts(inventoryFile[r])])
       ELSE Fails(r)
  /\ UNCHANGED <<mvars, ivars, dvars, tvars, bvars, hvars, uploads>>

\* ansible_update_state.py main, up to the loaded state and manifest.
UpdateRead(r) ==
  /\ pc[r] = "update"
  /\ \E readable \in BOOLEAN :
       IF ~cfg[r].namespace \/ ~readable \/ stateFile[r] = NoFile
       THEN Fails(r)
       ELSE Goes(r, "merge", [mem |-> stateFile[r]])
  /\ UNCHANGED <<mvars, ivars, dvars, tvars, bvars, hvars, uploads>>

\* ansible_update_state.py main: updated_state = update_state(state, manifest).
UpdateMerge(r) ==
  /\ pc[r] = "merge"
  /\ LET out == UpdateState(mem[r], cfg[r].manifest, clock)
     IN IF out.raised
        THEN Fails(r)
        ELSE Goes(r, "upload", [mem |-> out.state, mergeTime |-> clock])
  /\ clock' = clock + 1
  /\ UNCHANGED <<mvars, ivars, dvars, tvars, serialized, store, tfstate, uploads, hvars>>

\* ansible_update_state.py main: the client, upload_state, the local copy.
UpdateUpload(r) ==
  /\ pc[r] = "upload"
  /\ IF cfg[r].cloud = "oci"
     THEN \E clientOk \in BOOLEAN, putOk \in BOOLEAN :
            IF ~clientOk \/ ~putOk
            THEN /\ Fails(r)
                 /\ UNCHANGED <<store, uploads, uploadOrder>>
            ELSE /\ store' = PutObject(store, cfg[r].state_key, mem[r])
                 /\ uploads' = [uploads EXCEPT ![r] = @ + 1]
                 /\ uploadOrder' = Append(uploadOrder, r)
                 /\ Goes(r, "done", EmptyMap)
     ELSE /\ Goes(r, "done", EmptyMap)
          /\ UNCHANGED <<store, uploads, uploadOrder>>
  /\ UNCHANGED <<mvars, ivars, dvars, tvars, serialized, tfstate, clock, loadStatus>>

\* The caller cancels the run, or its time is up, between two steps.
Abort(r) ==
  /\ Active(r)
  /\ Fails(r)
  /\ UNCHANGED <<mvars, ivars, dvars, tvars, bvars, hvars, uploads>>

Next ==
  \E r \in Runs :
    \/ Discover(r)
    \/ GenerateInventory(r)
    \/ LoadState(r)
    \/ Precheck(r)
    \/ Execute(r)
    \/ UpdateRead(r)
    \/ UpdateMerge(r)
    \/ UpdateUpload(r)
    \/ Abort(r)

Spec == Init /\ [][Next]_vars

\* ---------------------------------------------------------------------
\* The merge on its own: update_state applied to a ledger and a manifest
\* drawn from bounded sets, then applied again to its own result.
\* ---------------------------------------------------------------------

\* Resource entries a stored ledger can hold for one key: records for any
\* subset of the operation types, or an entry without 'operations'.
LedgerEntries ==
  {MalformedEntry}
  \cup {[operations |-> [t \in T |-> OldRecord(t)]] : T \in SUBSET OpTypes}

MergeLedgers ==
  {[version |-> DefaultVersion, last_updated |-> 1, resources |-> r] :
     r \in UNION {[K -> LedgerEntries] : K \in SUBSET Keys}}

TypedManifests ==
  [operation_type : OpTypes,
   operation_version : {DefaultVersion},
   vm_resources : SeqsUpTo(VmTargets, MaxTargets),
   adb_resources : SeqsUpTo(AdbTargets, MaxTargets)]

MergeManifests == TypedManifests \cup {Untyped(m) : m \in TypedManifests}

\* No pipeline run takes part.
PipelineIdle ==
  /\ serialized = TRUE
  /\ store = [k \in LedgerKeys |-> Absent]
  /\ tfstate = [k \in {TfStateKey(Bucket, ConfigPath("oci"))} |-> Absent]
  /\ clock = 2
  /\ pc = [r \in Runs |-> "idle"]
  /\ cfg = [r \in Runs |-> NoCfg]
  /\ inventoryFile = [r \in Runs |-> NoFile]
  /\ stateFile = [r \in Runs |-> NoFile]
  /\ precheck = [r \in Runs |-> NoPrecheck]
  /\ executed = [r \in Runs |-> {}]
  /\ mem = [r \in Runs |-> NoFile]
  /\ uploads = [r \in Runs |-> 0]
  /\ loadStatus = [r \in Runs |-> ""]
  /\ seen = [r \in Runs |-> {}]
  /\ mergeTime = [r \in Runs |-> NoneTime]
  /\ uploadOrder = <<>>

MergeInit ==
  /\ mLedgers \in {<<l>> : l \in MergeLedgers}
  /\ mManifest \in MergeManifests
  /\ mTimes = <<>>
  /\ mRaised = FALSE
  /\ PipelineIdle
  /\ InventoryIdle
  /\ DiscoverIdle
  /\ TagsIdle

\* One call of update_state on the ledger the previous call returned; the
\* clock has not moved since the previous call, or has moved on.
MergeCall ==
  /\ Len(mLedgers) <= 2
  /\ ~mRaised
  /\ \E now \in (IF mTimes = <<>> THEN {mLedgers[1].last_updated + 1}
                 ELSE {mTimes[Len(mTimes)], mTimes[Len(mTimes)] + 1}) :
       LET out == UpdateState(mLedgers[Len(mLedgers)], mManifest, now)
       IN /\ mLedgers' = Append(mLedgers, out.state)
          /\ mTimes' = Append(mTimes, now)
          /\ mRaised' = out.raised
  /\ UNCHANGED <<mManifest, bvars, rvars, hvars, ivars, dvars, tvars>>

MergeNext == MergeCall

SpecMerge == MergeInit /\ [][MergeNext]_vars

\* ------------------------------------------------------ claims on the merge

SameAt(f, g, x) ==
  /\ x \in DOMAIN f <=> x \in DOMAIN g
  /\ x \in DOMAIN f => f[x] = g[x]

Calls == 1..(Len(mLedgers) - 1)
Before(i) == mLedgers[i].resources
After(i) == mLedgers[i + 1].resources

\* C1: update_state leaves resources[c] as it was (absent, or the same entry)
\* for every logical key c that no target of the manifest names.
C1_UnrelatedKeysUnchanged ==
  \A i \in Calls : \A c \in Keys \ TargetKeys(mManifest) :
    SameAt(Before(i), After(i), c)

\* C1 witness: a call that did write a target's record into a ledger that
\* also holds an entry under a key the manifest does not name.
C1_Witness ==
  /\ Len(mLedgers) >= 2
  /\ ~mRaised
  /\ Before(1) # After(1)
  /\ \E c \in DOMAIN Before(1) : c \notin TargetKeys(mManifest)

\* C2: for a target key that already has an entry, update_state leaves the
\* record of every operation type other than the manifest's as it was.
C2_OtherOperationsUnchanged ==
  \A i \in Calls : \A a \in TargetKeys(mManifest) \cap DOMAIN Before(i) :
    "operations" \in DOMAIN Before(i)[a] =>
      /\ "operations" \in DOMAIN After(i)[a]
      /\ \A t \in OpTypes \ {OperationType(mManifest)} :
           SameAt(Before(i)[a].operations, After(i)[a].operations, t)

\* C2 witness: a successful call on a target whose entry held a record of
\* another operation type.
C2_Witness ==
  /\ Len(mLedgers) >= 2
  /\ ~mRaised
  /\ \E a \in TargetKeys(mManifest) \cap DOMAIN Before(1) :
       /\ "operations" \in DOMAIN Before(1)[a]
       /\ \E t \in DOMAIN Before(1)[a].operations : t # OperationType(mManifest)
       /\ OperationType(mManifest) \in DOMAIN After(1)[a].operations

\* The records of the manifest's targets under its operation type, with
\* their completed / installed_at stamps set to the clock reading now.
Restamp(resources, manifest, now) ==
  [k \in DOMAIN resources |->
     IF k \in TargetKeys(manifest) /\ "operations" \in DOMAIN resources[k]
     THEN [resources[k] EXCEPT !.operations =
             [t \in DOMAIN @ |->
                IF t # OperationType(manifest) THEN @[t]
                ELSE LET stamped == [@[t] EXCEPT !.completed = now]
                     IN IF "agents" \in DOMAIN stamped
                        THEN [stamped EXCEPT !.agents =
                                [a \in DOMAIN @ |-> [@[a] EXCEPT !.installed_at = now]]]
                        ELSE stamped]]
     ELSE resources[k]]

\* C3 as stated: the resources after a second call with the same manifest
\* equal the resources after the first, whenever the second call happens.
C3_Original ==
  (Len(mLedgers) = 3 /\ ~mRaised) => After(2) = After(1)

\* C3 amended: the resources after the second call are those after the first
\* with the completed and installed_at stamps of the targets' records under
\* the manifest's operation type set to the time of the second call.
C3_IdempotentUpToStamps ==
  (Len(mLedgers) = 3 /\ ~mRaised) =>
     After(2) = Restamp(After(1), mManifest, mTimes[2])

\* C3 witness: two successful calls at different clock readings on a
\* manifest with a target.
C3_Witness ==
  /\ Len(mLedgers) = 3
  /\ ~mRaised
  /\ mTimes[2] > mTimes[1]
  /\ TargetKeys(mManifest) # {}

\* ---------------------------------------------------------------------
\* The inventory scripts and the pre-check on their own: one manifest and
\* one terraform.tfstate object drawn from bounded sets, then
\* ansible_generate_inventory.py, ansible_precheck.py and
\* scripts_python/ansible_inventory.py run on them.
\* ---------------------------------------------------------------------

\* Most targets (VM and ADB together) of a manifest given to the scripts.
MaxInvTargets == 2

\* What the snapshot holds for a key: nothing, a compute instance, one
\* without private_ip, one tagged as having agentX installed, a database.
ResourceKinds == {"none", "vm", "vm-noip", "vm-tagged", "adb"}

Attributes(resource) == resource.instances[1].attributes

ResourceOf(k, kind) ==
  IF kind = "vm" THEN ComputeResource(k)
  ELSE IF kind = "vm-noip"
  THEN [ComputeResource(k) EXCEPT !.instances =
          <<[attributes |->
               [f \in DOMAIN Attributes(ComputeResource(k)) \ {"private_ip"} |->
                  Attributes(ComputeResource(k))[f]]]>>]
  ELSE IF kind = "vm-tagged"
  THEN [ComputeResource(k) EXCEPT !.instances[1].attributes.freeform_tags =
          ("agentX_agent_installed" :> "true")]
  ELSE AdbResource(k)

RECURSIVE ResourcesOf(_, _)
ResourcesOf(kinds, k) ==
  IF k > NumKeys THEN <<>>
  ELSE (IF kinds[k] = "none" THEN <<>> ELSE <<ResourceOf(k, kinds[k])>>)
       \o ResourcesOf(kinds, k + 1)

Snapshots == {[resources |-> ResourcesOf(kinds, 1)] : kinds \in [Keys -> ResourceKinds]}

Targets(manifest) == Len(manifest.vm_resources) + Len(manifest.adb_resources)

InventoryManifests ==
  {m \in [operation_type : {"agent-install"},
          operation_version : {DefaultVersion},
          vm_resources : SeqsUpTo(VmTargets, MaxInvTargets),
          adb_resources : SeqsUpTo(AdbTargets, MaxInvTargets),
          pre_checks : [skip_if_installed : BOOLEAN]] :
     Targets(m) <= MaxInvTargets}

\* Every manifest on every snapshot, fetched without trouble.
GraphInputs ==
  [manifest : InventoryManifests,
   object : {Obj(snapshot) : snapshot \in Snapshots},
   cloud : {"oci"}, namespace : {TRUE}, clientOk : {TRUE}, fault : {FALSE}]

\* A manifest of at most one target on an object that is absent, not JSON,
\* empty or the pipeline's snapshot, in every environment.
EnvInputs ==
  [manifest : {m \in InventoryManifests :
                 Targets(m) <= 1 /\ m.pre_checks.skip_if_installed},
   object : {Absent, Garbage, Obj([resources |-> <<>>]), Obj(Snapshot)},
   cloud : Clouds, namespace : BOOLEAN, clientOk : BOOLEAN, fault : BOOLEAN]

\* The resource with n as the copy number in the id of its instances.
Copy(resource, n) ==
  [resource EXCEPT !.instances =
     [i \in DOMAIN @ |->
        [@[i] EXCEPT !.attributes.id = [ocid |-> resource.name, copy |-> n]]]]

\* The resource with two instances of its display name.
TwoInstances(resource) ==
  [resource EXCEPT !.instances =
     Copy(resource, 1).instances \o Copy(resource, 2).instances]

\* Snapshots in which a logical key occurs twice: in two resources of one
\* kind or of both kinds, or in two instances of one resource.
DuplicateSnapshots ==
  LET each == {ComputeResource(k) : k \in Keys} \cup {AdbResource(k) : k \in Keys}
  IN {[resources |-> <<Copy(a, 1), Copy(b, 2)>>] : a \in each, b \in each}
     \cup {[resources |-> <<TwoInstances(a)>>] : a \in each}

\* Every manifest on every such snapshot, fetched without trouble.
DuplicateInputs ==
  [manifest : {m \in InventoryManifests : ~m.pre_checks.skip_if_installed},
   object : {Obj(snapshot) : snapshot \in DuplicateSnapshots},
   cloud : {"oci"}, namespace : {TRUE}, clientOk : {TRUE}, fault : {FALSE}]

InventoryInit ==
  /\ iIn \in GraphInputs \cup EnvInputs \cup DuplicateInputs
  /\ iPc = "generate"
  /\ iResources = EmptyMap
  /\ iInventory = NoFile
  /\ iPrecheck = NoPrecheck
  /\ iAdb = NoFile
  /\ mLedgers = <<>>
  /\ mTimes = <<>>
  /\ mManifest = NoCfg
  /\ mRaised = FALSE
  /\ PipelineIdle
  /\ DiscoverIdle
  /\ TagsIdle

\* What get_object answers for the terraform.tfstate object of the inputs.
SnapshotResponse ==
  LET key == TfStateKey(Bucket, ConfigPath("oci"))
  IN GetObject((key :> iIn.object), key, iIn.fault)

\* ansible_generate_inventory.py runs.
RunGenerateInventory ==
  /\ iPc = "generate"
  /\ iResources' = LoadResourcesMap(iIn.cloud, iIn.namespace, iIn.clientOk,
                                    SnapshotResponse)
  /\ iInventory' = InventoryMain(iIn.cloud, iIn.namespace, iIn.clientOk,
                                 SnapshotResponse, iIn.manifest)
  /\ iPc' = "precheck"
  /\ UNCHANGED <<iIn, iPrecheck, iAdb, mvars, bvars, rvars, hvars,
               dvars, tvars>>

\* ansible_precheck.py runs on the inventory and a new ledger.
RunPrecheck ==
  /\ iPc = "precheck"
  /\ iPrecheck' =
       [missing |-> CheckTargetsExist(iIn.manifest, iInventory),
        skipped |-> CheckSkipIfInstalled(iIn.manifest, iInventory, EmptyLedger)]
  /\ iPc' = "adb"
  /\ UNCHANGED <<iIn, iResources, iInventory, iAdb, mvars, bvars, rvars, hvars,
               dvars, tvars>>

\* The manifest of scripts_python/ansible_inventory.py with the same
\* database targets: "targets" is the list, the key is "display_name".
AdbManifest(manifest) ==
  [targets |->
     [i \in DOMAIN manifest.adb_resources |->
        [display_name |-> manifest.adb_resources[i].logical_key,
         action |-> manifest.adb_resources[i].action]]]

\* scripts_python/ansible_inventory.py runs.
RunAnsibleInventory ==
  /\ iPc = "adb"
  /\ iAdb' = AnsibleInventoryMain(iIn.cloud, iIn.namespace, SnapshotResponse,
                                  AdbManifest(iIn.manifest))
  /\ iPc' = "done"
  /\ UNCHANGED <<iIn, iResources, iInventory, iPrecheck, mvars, bvars, rvars, hvars,
               dvars, tvars>>

InventoryNext == RunGenerateInventory \/ RunPrecheck \/ RunAnsibleInventory

SpecInventory == InventoryInit /\ [][InventoryNext]_vars

\* ---------------------------------------------------------------------
\* The discovery scripts on their own: discover_backend.py and
\* ansible_discover_operation.py run on arguments, a working directory, an
\* environment and an operation file drawn from bounded sets.  A path is
\* the sequence of its segments, a repository name the sequence of its
\* pieces.
\* ---------------------------------------------------------------------

\* '/'.join(parts).
RECURSIVE Join(_)
Join(parts) ==
  IF parts = <<>> THEN ""
  ELSE IF Len(parts) = 1 THEN parts[1]
  ELSE parts[1] \o "/" \o Join(Tail(parts))

\* The string made of the pieces.
RECURSIVE Concat(_)
Concat(pieces) ==
  IF pieces = <<>> THEN "" ELSE Head(pieces) \o Concat(Tail(pieces))

\* parts.index(x), counted from 1; 0 stands for the ValueError.
Index(parts, x) ==
  IF \E i \in DOMAIN parts : parts[i] = x
  THEN CHOOSE i \in DOMAIN parts :
         parts[i] = x /\ \A j \in 1..(i - 1) : parts[j] # x
  ELSE 0

\* find_operation_folder(cloud, operation_file): the path up to the segment
\* after the first segment equal to cloud.
FindOperationFolder(cloud, operation_file) ==
  LET cloud_idx == Index(operation_file, cloud)
  IN IF cloud_idx = 0 THEN [exit |-> 1]
     ELSE IF Len(operation_file) < cloud_idx + 1 THEN [exit |-> 1]
     ELSE [exit |-> 0, region_path |-> SubSeq(operation_file, 1, cloud_idx + 1)]

\* os.path.basename(config_path).
GetRegionName(config_path) == config_path[Len(config_path)]

\* find_region_folder(cloud): the directories cloud/* of the working
\* directory, of which glob lists any one first; None when there is none.
FindRegionFolder(cloud, dirs) ==
  LET folders == {d \in dirs : Len(d) = 2 /\ d[1] = cloud}
  IN IF folders = {} THEN {None} ELSE folders

\* get_repository_name() on GITHUB_REPOSITORY split at '/': the last segment
\* without the prefix "oe-env-" and the suffix "-template".
GetRepositoryName(full_repo) ==
  LET repo_name == full_repo[Len(full_repo)]
      bucket_name == IF repo_name # <<>> /\ Head(repo_name) = "oe-env-"
                     THEN Tail(repo_name) ELSE repo_name
  IN IF bucket_name # <<>> /\ bucket_name[Len(bucket_name)] = "-template"
     THEN SubSeq(bucket_name, 1, Len(bucket_name) - 1)
     ELSE bucket_name

\* build_state_key(repo_name, config_path) of discover_backend.py.
BuildBackendStateKey(repo_name, config_path) ==
  repo_name \o "/" \o config_path \o "/terraform.tfstate"

\* discover_backend.py main on sys.argv[1:], with config_path the folder
\* find_region_folder returned.
DiscoverBackendMain(args, config_path, full_repo) ==
  IF Len(args) # 1 THEN [exit |-> 1]
  ELSE IF config_path = None THEN [exit |-> 1]
  ELSE LET repo_name == Concat(GetRepositoryName(full_repo))
       IN [exit |-> 0,
           outputs |->
             [config_subpath |-> Join(config_path),
              region |-> GetRegionName(config_path),
              bucket_name |-> repo_name,
              state_key |-> BuildBackendStateKey(repo_name, Join(config_path))]]

\* ansible_discover_operation.py main on sys.argv[1:] and the content of the
\* operation file.
DiscoverOperationMain(args, file) ==
  IF Len(args) # 3 THEN [exit |-> 1]
  ELSE IF ~file.exists \/ ~file.parseable THEN [exit |-> 1]
  ELSE IF ~Truthy(OperationType(file.data)) THEN [exit |-> 1]
  ELSE LET found == FindOperationFolder(args[1], args[2])
       IN IF found.exit = 1 THEN [exit |-> 1]
          ELSE [exit |-> 0,
                outputs |->
                  [config_subpath |-> Join(found.region_path),
                   region |-> GetRegionName(found.region_path),
                   operation_type |-> OperationType(file.data),
                   state_key |-> BuildStateKey(args[3], Join(found.region_path),
                                               OperationType(file.data)),
                   target_count |-> Targets(file.data)]]

BucketArgs == {"test-bucket"}

\* Region folders of the working directory.
Directories ==
  {{},
   {<<"oci", "eu-frankfurt-1">>},
   {<<"oci", "eu-frankfurt-1">>, <<"oci", "us-ashburn-1">>, <<"azure", "fra">>}}

\* GITHUB_REPOSITORY: unset, "owner/repo" and a name without owner.
Repositories ==
  {<<<<>>>>,
   <<<<"oci-clickops">>, <<"oe-env-", "project", "-template">>>>,
   <<<<"oci-clickops">>, <<"oe-env-", "myapp">>>>,
   <<<<"myapp">>>>}

\* Paths of the operation file.
OperationFiles ==
  {<<"oci", "eu-frankfurt-1", "operations", "adb-ops.json">>,
   <<"azure", "fra", "operations", "adb-ops.json">>,
   <<"live", "oci", "eu-frankfurt-1", "operations", "adb-ops.json">>,
   <<"operations", "oci">>,
   <<"operations", "adb-ops.json">>}

\* The operation file: missing, not JSON, or a manifest with or without
\* operation_type.
OperationFileContents ==
  {Absent, Garbage}
  \cup {Obj(PipelineManifest(op, 1)) : op \in OpTypes}
  \cup {Obj(Untyped(PipelineManifest(op, 1))) : op \in OpTypes}

DiscoverInputs ==
  [backend_args : {<<>>} \cup {<<c>> : c \in Clouds}
                  \cup {<<c, b>> : c \in Clouds, b \in BucketArgs},
   dirs : Directories,
   repository : Repositories,
   operation_args : {<<c>> : c \in Clouds}
                    \cup {<<c, f, Bucket>> : c \in Clouds, f \in OperationFiles},
   file : OperationFileContents]

DiscoverInit ==
  /\ dIn \in DiscoverInputs
  /\ dPc = "backend"
  /\ dBackend = NoFile
  /\ dOperation = NoFile
  /\ mLedgers = <<>>
  /\ mTimes = <<>>
  /\ mManifest = NoCfg
  /\ mRaised = FALSE
  /\ PipelineIdle
  /\ InventoryIdle
  /\ TagsIdle

\* discover_backend.py runs.
RunDiscoverBackend ==
  /\ dPc = "backend"
  /\ \E config_path \in (IF Len(dIn.backend_args) >= 1
                         THEN FindRegionFolder(dIn.backend_args[1], dIn.dirs)
                         ELSE {None}) :
       dBackend' = DiscoverBackendMain(dIn.backend_args, config_path,
                                       dIn.repository)
  /\ dPc' = "operation"
  /\ UNCHANGED <<dIn, dOperation, mvars, bvars, rvars, hvars, ivars, tvars>>

\* ansible_discover_operation.py runs.
RunDiscoverOperation ==
  /\ dPc = "operation"
  /\ dOperation' = DiscoverOperationMain(dIn.operation_args, dIn.file)
  /\ dPc' = "done"
  /\ UNCHANGED <<dIn, dBackend, mvars, bvars, rvars, hvars, ivars, tvars>>

DiscoverNext == RunDiscoverBackend \/ RunDiscoverOperation

SpecDiscover == DiscoverInit /\ [][DiscoverNext]_vars

\* ---------------------------------------------------------------------
\* Tagging and the pre-check of later runs: runs of
\* ansible_generate_inventory.py, ansible_precheck.py and
\* ansible_update_tags.py, one after the other, against the resources of one
\* tenancy, whose terraform.tfstate is refreshed between runs or not.
\* ---------------------------------------------------------------------

TagAgentTypes == {"agentX", "agentY"}

\* The marker under a key the pre-check does not read.
RECURSIVE AgentTagsUnderOtherKey(_, _)
AgentTagsUnderOtherKey(agents, tags) ==
  IF agents = <<>> THEN tags
  ELSE AgentTagsUnderOtherKey(Tail(agents),
         Put(Put(tags, Head(agents).type \o "_installed", "true"),
             Head(agents).type \o "_agent_version", Head(agents).version))

\* The tags update_tags gives a target with these agents, added to tags.
RECURSIVE AgentTags(_, _)
AgentTags(agents, tags) ==
  IF agents = <<>> THEN tags
  ELSE AgentTags(Tail(agents),
                 Put(Put(tags, Head(agents).type \o "_agent_installed", "true"),
                     Head(agents).type \o "_agent_version", Head(agents).version))

\* The resource of the tenancy that has the id, of the kind the client
\* serves; get_instance / get_autonomous_database raise when there is none.
Serving(live, ocid, kinds) ==
  {k \in DOMAIN live : live[k].kind \in kinds /\ Ocid(k) = ocid}

\* update_compute_tags / update_adb_tags: the tags are merged into the
\* resource's current tags, or the call fails and changes nothing.
UpdateResourceTags(live, ocid, tags, kinds, fails) ==
  IF fails \/ Serving(live, ocid, kinds) = {} THEN [ok |-> FALSE, live |-> live]
  ELSE LET k == CHOOSE x \in Serving(live, ocid, kinds) : TRUE
       IN [ok |-> TRUE,
           live |-> [live EXCEPT ![k].freeform_tags = tags @@ @]]

UpdateComputeTags(live, instance_ocid, tags, fails) ==
  UpdateResourceTags(live, instance_ocid, tags, {"vm", "vm-noip"}, fails)

UpdateAdbTags(live, adb_ocid, tags, fails) ==
  UpdateResourceTags(live, adb_ocid, tags, {"adb"}, fails)

\* The loop over vm_resources of ansible_update_tags.py main; acc is
\* [live, tagged], failing the ids whose update call fails.  A host of the
\* inventory always carries the id of its resource, so "if ocid" is whether
\* the inventory has the host.
RECURSIVE UpdateVmTags(_, _, _, _, _, _)
UpdateVmTags(acc, targets, manifest, inventory, current_time, failing) ==
  IF targets = <<>> THEN acc
  ELSE LET vm_target == Head(targets)
           logical_key == vm_target.logical_key
           host_vars == HostVars(inventory, logical_key)
           ocid == Get(host_vars, "oci_ocid", None)
           tags == [last_ansible_run |-> current_time,
                    ansible_operation |-> OperationType(manifest)]
                   @@ AgentTags(Get(vm_target, "agents", <<>>),
                                Get(Get(manifest, "state_tracking", EmptyMap),
                                    "tags", EmptyMap))
           out == UpdateComputeTags(acc.live, ocid, tags, ocid \in failing)
           agents == Get(vm_target, "agents", <<>>)
       IN UpdateVmTags(
            IF "oci_ocid" \notin DOMAIN host_vars THEN acc
            ELSE [live |-> out.live,
                  tagged |-> acc.tagged \cup
                     (IF out.ok
                      THEN {<<ocid, agents[i].type>> : i \in DOMAIN agents}
                      ELSE {})],
            Tail(targets), manifest, inventory, current_time, failing)

\* The loop over adb_resources.
RECURSIVE UpdateAdbTargetTags(_, _, _, _, _, _)
UpdateAdbTargetTags(acc, targets, manifest, inventory, current_time, failing) ==
  IF targets = <<>> THEN acc
  ELSE LET adb_target == Head(targets)
           host_vars == HostVars(inventory, adb_target.logical_key)
           ocid == Get(host_vars, "oci_ocid", None)
           tags == [last_ansible_run |-> current_time,
                    last_action |-> Get(adb_target, "action", None),
                    ansible_operation |-> OperationType(manifest)]
           out == UpdateAdbTags(acc.live, ocid, tags, ocid \in failing)
       IN UpdateAdbTargetTags(
            IF "oci_ocid" \notin DOMAIN host_vars THEN acc
            ELSE [acc EXCEPT !.live = out.live],
            Tail(targets), manifest, inventory, current_time, failing)

\* ansible_update_tags.py main: the resources after it, and the
\* <<resource id, agent type>> pairs it has tagged.
UpdateTagsMain(cloud, manifest, inventory, live, clientsOk, current_time, failing) ==
  LET state_tracking == Get(manifest, "state_tracking", EmptyMap)
      start == [live |-> live, tagged |-> {}]
  IN IF ~Get(state_tracking, "update_tags", FALSE) THEN [exit |-> 0] @@ start
     ELSE IF cloud # "oci" THEN [exit |-> 0] @@ start
     ELSE IF ~clientsOk THEN [exit |-> 1] @@ start
     ELSE [exit |-> 0]
          @@ UpdateAdbTargetTags(
               UpdateVmTags(start, manifest.vm_resources, manifest, inventory,
                            current_time, failing),
               manifest.adb_resources, manifest, inventory, current_time,
               failing)

\* The resources of a tenancy, with no tags yet: key 1 is a compute instance,
\* with a private address or without, key 2 a compute instance or a
\* database; any further key is not provisioned.
Tenancies ==
  {live \in [Keys -> [kind : {"none", "vm", "vm-noip", "adb"},
                      freeform_tags : {EmptyMap}]] :
     /\ live[1].kind \in {"vm", "vm-noip"}
     /\ \A k \in Keys : k = 2 => live[k].kind \in {"vm", "adb"}
     /\ \A k \in Keys : k > 2 => live[k].kind = "none"}

\* The snapshot Terraform writes when it reads the resources.
RECURSIVE TerraformResources(_, _)
TerraformResources(live, k) ==
  IF k > NumKeys THEN <<>>
  ELSE (IF live[k].kind = "none" THEN <<>>
        ELSE <<[ResourceOf(k, live[k].kind) EXCEPT
                  !.instances[1].attributes.freeform_tags = live[k].freeform_tags]>>)
       \o TerraformResources(live, k + 1)

TerraformState(live) == [resources |-> TerraformResources(live, 1)]

\* A vm_resources element with one or two agents.
TagVmTargets ==
  [logical_key : Keys,
   agents : {<<[type |-> a, version |-> DefaultVersion]>> : a \in TagAgentTypes}
            \cup {<<[type |-> "agentX", version |-> DefaultVersion],
                    [type |-> "agentY", version |-> DefaultVersion]>>}]

\* The manifests of the runs: at most one VM target and one ADB target.
TagManifests ==
  [operation_type : {"agent-install"},
   operation_version : {DefaultVersion},
   vm_resources : SeqsUpTo(TagVmTargets, 1),
   adb_resources : SeqsUpTo(AdbTargets, 1),
   pre_checks : [skip_if_installed : BOOLEAN],
   state_tracking : [update_tags : BOOLEAN, tags : {("owner" :> "ops")}]]

TagsInit ==
  /\ tIn = NoCfg
  /\ tPc = [run |-> 0, step |-> "idle"]
  /\ \E live \in Tenancies :
       tCloud = [live |-> live, tfstate |-> TerraformState(live)]
  /\ tInventory = NoFile
  /\ tPrecheck = NoPrecheck
  /\ tTagged = {}
  /\ mLedgers = <<>>
  /\ mTimes = <<>>
  /\ mManifest = NoCfg
  /\ mRaised = FALSE
  /\ PipelineIdle
  /\ InventoryIdle
  /\ DiscoverIdle

\* Terraform reads the resources again between two runs.
TerraformRefresh ==
  /\ tPc.step = "idle"
  /\ tCloud.tfstate # TerraformState(tCloud.live)
  /\ tCloud' = [tCloud EXCEPT !.tfstate = TerraformState(tCloud.live)]
  /\ UNCHANGED <<tIn, tPc, tInventory, tPrecheck, tTagged,
                 mvars, bvars, rvars, hvars, ivars, dvars>>

\* A run starts: ansible_generate_inventory.py runs on its manifest.
TagGenerateInventory ==
  /\ tPc.step = "idle"
  /\ tPc.run < NumRuns
  /\ \E manifest \in TagManifests :
       LET key == TfStateKey(Bucket, ConfigPath("oci"))
           resp == GetObject((key :> Obj(tCloud.tfstate)), key, FALSE)
       IN /\ tIn' = manifest
          /\ tInventory' = InventoryMain("oci", TRUE, TRUE, resp, manifest)
  /\ tPc' = [run |-> tPc.run + 1, step |-> "precheck"]
  /\ tPrecheck' = NoPrecheck
  /\ UNCHANGED <<tCloud, tTagged, mvars, bvars, rvars, hvars, ivars, dvars>>

\* ansible_precheck.py runs.
TagPrecheck ==
  /\ tPc.step = "precheck"
  /\ tPrecheck' =
       [missing |-> CheckTargetsExist(tIn, tInventory),
        skipped |-> CheckSkipIfInstalled(tIn, tInventory, EmptyLedger)]
  /\ tPc' = [tPc EXCEPT !.step = "tags"]
  /\ UNCHANGED <<tIn, tCloud, tInventory, tTagged,
                 mvars, bvars, rvars, hvars, ivars, dvars>>

\* ansible_update_tags.py runs, and the run ends.
TagUpdateTags ==
  /\ tPc.step = "tags"
  /\ \E clientsOk \in BOOLEAN,
        failing \in SUBSET {Ocid(k) : k \in TargetKeys(tIn)} :
       LET out == UpdateTagsMain("oci", tIn, tInventory, tCloud.live,
                                 clientsOk, tPc.run, failing)
       IN /\ tCloud' = [tCloud EXCEPT !.live = out.live]
          /\ tTagged' = tTagged \cup out.tagged
  /\ tPc' = [tPc EXCEPT !.step = "idle"]
  /\ UNCHANGED <<tIn, tInventory, tPrecheck,
                 mvars, bvars, rvars, hvars, ivars, dvars>>

TagsNext ==
  TerraformRefresh \/ TagGenerateInventory \/ TagPrecheck \/ TagUpdateTags

SpecTags == TagsInit /\ [][TagsNext]_vars

\* --------------------------------------------------- claims on the pipeline

OpOf(r) == cfg[r].manifest.operation_type

\* The ledger holds a record for key k under operation type op.
HasOp(ledger, k, op) ==
  /\ k \in DOMAIN ledger.resources
  /\ "operations" \in DOMAIN ledger.resources[k]
  /\ op \in DOMAIN ledger.resources[k].operations

\* The ledger holds the success record that run r merged for key k.
HoldsRecordOf(ledger, r, k) ==
  /\ HasOp(ledger, k, OpOf(r))
  /\ ledger.resources[k].operations[OpOf(r)].status = "success"
  /\ ledger.resources[k].operations[OpOf(r)].completed = mergeTime[r]

Persisted(key) == store[key].exists /\ store[key].parseable

Uploaded(r) == pc[r] = "done" /\ uploads[r] = 1

\* What the pre-check's output says of target k of run r.
Decision(r, k) ==
  IF k \in precheck[r].missing THEN "SkipUnresolved"
  ELSE IF \E i \in DOMAIN precheck[r].skipped : precheck[r].skipped[i][1] = k
  THEN "SkipAlreadyDone"
  ELSE "Proceed"

\* C4 as stated: a run's merge writes a success record only for the targets
\* the executor ran successfully; a target that is not in the inventory gets
\* none.
C4_SuccessOnlyForExecuted ==
  \A r \in Runs :
    pc[r] \in {"upload", "done"} =>
      \A k \in TargetKeys(cfg[r].manifest) :
        HoldsRecordOf(mem[r], r, k) => k \in executed[r]

\* C5 as stated: with serialized runs, once a run has executed a target and
\* persisted the ledger, a later run of the same manifest that loaded that
\* ledger does not let the target proceed again.
C5_CompletedNotReapplied ==
  \A r \in Runs, s \in Runs :
    ( /\ serialized
      /\ Uploaded(s)
      /\ s \in seen[r]
      /\ pc[r] \in {"execute", "update", "merge", "upload", "done"}
      /\ cfg[r].manifest = cfg[s].manifest )
    => \A k \in executed[s] :
         HoldsRecordOf(stateFile[r], s, k) => Decision(r, k) # "Proceed"

LastUploader(key) ==
  LET idx == {i \in DOMAIN uploadOrder : cfg[uploadOrder[i]].state_key = key}
  IN uploadOrder[CHOOSE i \in idx : \A j \in idx : j <= i]

\* Runs a and b use one ledger key, each loaded before the other uploaded,
\* and b uploaded last.
Raced(a, b) ==
  /\ a # b
  /\ Uploaded(a) /\ Uploaded(b)
  /\ cfg[a].state_key = cfg[b].state_key
  /\ a \notin seen[b] /\ b \notin seen[a]
  /\ LastUploader(cfg[b].state_key) = b

\* C6: when two runs on one ledger key have both loaded before either
\* uploaded, the persisted ledger is the second uploader's and lacks the
\* record the first uploader merged for a key the second does not target.
C6_LostUpdate ==
  \A a \in Runs, b \in Runs :
    Raced(a, b) =>
      /\ store[cfg[b].state_key] = Obj(mem[b])
      /\ \A k \in TargetKeys(cfg[a].manifest) \ TargetKeys(cfg[b].manifest) :
           ~HoldsRecordOf(store[cfg[a].state_key].data, a, k)

\* C6 witness: such a race between runs that target different keys.
C6_Witness ==
  \E a \in Runs, b \in Runs :
    /\ Raced(a, b)
    /\ TargetKeys(cfg[a].manifest) \cap TargetKeys(cfg[b].manifest) = {}
    /\ TargetKeys(cfg[a].manifest) # {}

\* C7: with serialized runs, every completed run against a ledger key of the
\* bucket has uploaded, and the persisted ledger holds, for every target of
\* every such run, a record under that run's operation type.
C7_SerializedKeepsAll ==
  serialized =>
    \A r \in Runs :
      (pc[r] = "done" /\ cfg[r].state_key \in LedgerKeys) =>
        /\ Uploaded(r)
        /\ Persisted(cfg[r].state_key)
        /\ \A k \in TargetKeys(cfg[r].manifest) :
             HasOp(store[cfg[r].state_key].data, k, OpOf(r))

\* C7 witness: two serialized runs on one ledger key with different targets
\* have both uploaded.
C7_Witness ==
  /\ serialized
  /\ \E a \in Runs, b \in Runs :
       /\ a # b
       /\ Uploaded(a) /\ Uploaded(b)
       /\ cfg[a].state_key = cfg[b].state_key
       /\ TargetKeys(cfg[a].manifest) \cap TargetKeys(cfg[b].manifest) = {}

\* C8: a run replaces the ledger object at most once, only the upload of the
\* update step changes the bucket, and a step that fails leaves the bucket
\* as it was.
C8_SingleCommitPoint ==
  [][ /\ \A r \in Runs : uploads'[r] <= 1
      /\ store' # store =>
           \E r \in Runs : /\ pc[r] = "upload" /\ pc'[r] = "done"
                           /\ uploads'[r] = uploads[r] + 1
      /\ \A r \in Runs :
           (pc[r] # "failed" /\ pc'[r] = "failed") => store' = store ]_vars

\* C8 witness: a run that had loaded the ledger has failed at a later step,
\* without an upload, and the bucket is as it was before the first run.
C8_Witness ==
  \E r \in Runs :
    /\ pc[r] = "failed"
    /\ loadStatus[r] \in {"found", "not found"}
    /\ uploads[r] = 0
    /\ \A k \in LedgerKeys : store[k] \in InitialObjects

\* C9: a load that meets not-found writes a ledger with version "1.0.0" and
\* no resources, and the run goes on to the next step.
C9_NotFoundInitialises ==
  [][ \A r \in Runs :
        (pc[r] = "load" /\ loadStatus'[r] = "not found") =>
          /\ pc'[r] = "precheck"
          /\ stateFile'[r] # NoFile
          /\ stateFile'[r].version = "1.0.0"
          /\ stateFile'[r].resources = EmptyMap ]_vars

\* C9 witness: a run past a load that met not-found.
C9_Witness ==
  \E r \in Runs :
    /\ loadStatus[r] = "not found"
    /\ pc[r] = "precheck"
    /\ stateFile[r].resources = EmptyMap

\* C10: a load that meets another storage status or content that does not
\* parse fails and writes no ledger file; an unreadable ledger object is
\* never replaced; and only a run whose load read the ledger (or met
\* not-found) uploads.
C10_FetchFailureFatal ==
  [][ /\ \A r \in Runs :
           (pc[r] = "load" /\ loadStatus'[r] \in {"storage error", "unparseable"})
           => (pc'[r] = "failed" /\ stateFile'[r] = NoFile)
      /\ \A k \in LedgerKeys : store[k] = Garbage => store'[k] = Garbage
      /\ \A r \in Runs :
           uploads'[r] # uploads[r] => loadStatus[r] \in {"found", "not found"}
    ]_vars

\* C10 witness: a run has failed at a load that met an unreadable ledger,
\* which is still in the bucket.
C10_Witness ==
  \E r \in Runs :
    /\ pc[r] = "failed"
    /\ loadStatus[r] = "unparseable"
    /\ \E k \in LedgerKeys : store[k] = Garbage

\* ------------------------------------------- claims on the inventory scripts

Range(seq) == {seq[i] : i \in DOMAIN seq}

\* The snapshot reached ansible_generate_inventory.py.
Fetched ==
  /\ iIn.cloud = "oci" /\ iIn.namespace /\ iIn.clientOk /\ ~iIn.fault
  /\ iIn.object.exists /\ iIn.object.parseable

Built == iPc \in {"precheck", "adb", "done"}

\* The resources of the snapshot, and the logical keys of the resource
\* graph: the map parsed from the snapshot.
GraphResources == Range(iIn.object.data.resources)
GraphKeys == DOMAIN iResources

\* The record of key k in the resource graph has a private address.
HasAddress(k) ==
  /\ k \in GraphKeys
  /\ "private_ip" \in DOMAIN iResources[k]
  /\ Truthy(iResources[k].private_ip)

VmKey(i) == iIn.manifest.vm_resources[i].logical_key
AdbKey(i) == iIn.manifest.adb_resources[i].logical_key

\* The targets build_ansible_inventory left out of the inventory.
UnresolvedVm ==
  {i \in DOMAIN iIn.manifest.vm_resources :
     VmKey(i) \notin Range(iInventory.compute_instances)}
UnresolvedAdb ==
  {i \in DOMAIN iIn.manifest.adb_resources :
     AdbKey(i) \notin Range(iInventory.adb_instances)}

\* The databases of the snapshot, by name.
AdbGraphKeys ==
  {Attributes(res).display_name :
     res \in {x \in GraphResources : x.type = "oci_database_autonomous_database"}}

C12_AbsentTargetNeverAborts ==
  (iPc = "done" /\ Fetched) =>
    /\ iInventory # NoFile
    /\ Range(iInventory.adb_instances) =
         {AdbKey(i) : i \in DOMAIN iIn.manifest.adb_resources} \cap GraphKeys
    /\ iAdb.exit = 0
    /\ Range(iAdb.inventory.adb_instances) =
         {AdbKey(i) : i \in DOMAIN iIn.manifest.adb_resources} \cap AdbGraphKeys

\* The script can reach the bucket: cloud, namespace, client, no storage fault.
Reachable ==
  iIn.cloud = "oci" /\ iIn.namespace /\ iIn.clientOk /\ ~iIn.fault

AllTargets ==
  {VmKey(i) : i \in DOMAIN iIn.manifest.vm_resources}
  \cup {AdbKey(i) : i \in DOMAIN iIn.manifest.adb_resources}

\* C13 as stated: with an empty or missing snapshot every manifest target is
\* unresolved and the inventory step still completes, with an inventory that
\* has no hosts.
C13_EmptySnapshotCompletes ==
  ( /\ iPc = "done" /\ Reachable
    /\ iIn.object \in {Absent, Obj([resources |-> <<>>])} )
  => /\ iInventory # NoFile
     /\ InventoryHosts(iInventory) = {}
     /\ iPrecheck.missing = AllTargets
     /\ iAdb.exit = 0
     /\ iAdb.inventory.adb_instances = <<>>

\* C14 as stated: a snapshot that was fetched but is not valid structured
\* data makes the inventory step fail before any inventory is produced.
C14_MalformedSnapshotFatal ==
  (Built /\ Reachable /\ iIn.object = Garbage) =>
    /\ iInventory = NoFile
    /\ iPc = "done" => (iAdb.exit = 1 /\ "inventory" \notin DOMAIN iAdb)

\* C15 as stated: when the fetch of the snapshot fails (a storage error, or
\* no usable client) the inventory step fails and produces no inventory.
C15_FetchFailureFatal ==
  (Built /\ iIn.cloud = "oci" /\ iIn.namespace /\ (iIn.fault \/ ~iIn.clientOk))
  => iInventory = NoFile

\* C16 as stated: a run without STATE_NAMESPACE produces no inventory, no
\* ledger file and no upload: the step that needs the namespace fails.
C16_MissingNamespaceFatal ==
  \A r \in Runs :
    (cfg[r] # NoCfg /\ ~cfg[r].namespace) =>
      /\ inventoryFile[r] = NoFile
      /\ stateFile[r] = NoFile
      /\ uploads[r] = 0

\* ------------------------------------------------ more claims on the merge

\* C17 as stated: update_state does not accept a manifest without
\* operation_type: a call with one writes nothing into the resources, and no
\* entry of the ledger gets a record under the absent operation type.
C17_UntypedManifestRejected ==
  ("operation_type" \notin DOMAIN mManifest) =>
     \A i \in Calls :
       /\ After(i) = Before(i)
       /\ \A k \in DOMAIN After(i) :
            "operations" \in DOMAIN After(i)[k] =>
               None \notin DOMAIN After(i)[k].operations

\* ---------------------------------------------- more claims on the pipeline

\* C18 as stated: a run whose update step ended successfully has written its
\* merged ledger to the bucket.
C18_SuccessOnlyIfPersisted ==
  \A r \in Runs : pc[r] = "done" => uploads[r] = 1

\* ------------------------------------- more claims on the inventory scripts

\* The elements of keys that are in S, in the order of keys.
RECURSIVE Kept(_, _)
Kept(keys, S) ==
  IF keys = <<>> THEN <<>>
  ELSE (IF Head(keys) \in S THEN <<Head(keys)>> ELSE <<>>) \o Kept(Tail(keys), S)

\* The elements of keys in the order of their first occurrence.
RECURSIVE FirstOccurrences(_, _)
FirstOccurrences(keys, seen_keys) ==
  IF keys = <<>> THEN <<>>
  ELSE IF Head(keys) \in seen_keys THEN FirstOccurrences(Tail(keys), seen_keys)
  ELSE <<Head(keys)>> \o FirstOccurrences(Tail(keys), seen_keys \cup {Head(keys)})

VmKeys == [i \in DOMAIN iIn.manifest.vm_resources |-> VmKey(i)]
AdbKeys == [i \in DOMAIN iIn.manifest.adb_resources |-> AdbKey(i)]

\* C19: the hosts of each group of the inventory are the group's targets in
\* the order the manifest declares them, with the unresolved ones removed;
\* the hosts of build_inventory are its targets in the order of their first
\* declaration.
C19_HostOrder ==
  /\ Built =>
       /\ iInventory.compute_instances =
            Kept(VmKeys, Range(iInventory.compute_instances))
       /\ iInventory.adb_instances =
            Kept(AdbKeys, Range(iInventory.adb_instances))
  /\ (iPc = "done" /\ iAdb.exit = 0) =>
       iAdb.inventory.adb_instances = FirstOccurrences(AdbKeys, {})

\* C19 witness: two VM targets declared in the order 2, 1 are both hosts, in
\* that order.
C19_Witness ==
  /\ iPc = "done"
  /\ iInventory.compute_instances = <<2, 1>>

\* The snapshot's resource of key k carries the tag that marks agent a as
\* installed.
Tagged(k, a) ==
  \E res \in GraphResources :
    /\ Attributes(res).display_name = k
    /\ "freeform_tags" \in DOMAIN Attributes(res)
    /\ Get(Attributes(res).freeform_tags, a \o "_agent_installed", None) = "true"

\* The inventory handed to the executor lists host k with agent a.
HandedOver(k, a) ==
  /\ k \in Range(iInventory.compute_instances)
  /\ LET agents == Get(iInventory.hostvars[k], "agents", <<>>)
     IN \E j \in DOMAIN agents : agents[j].type = a

\* C20 as stated: with skip_if_installed, a VM target with an agent whose
\* resolved resource carries the agent's installed tag is reported by the
\* pre-check as already installed and is not handed to the executor for
\* that agent.
C20_TaggedTargetSkipped ==
  (iPc \in {"adb", "done"} /\ Fetched /\ iIn.manifest.pre_checks.skip_if_installed)
  => \A i \in DOMAIN iIn.manifest.vm_resources :
       \A j \in DOMAIN iIn.manifest.vm_resources[i].agents :
         LET a == iIn.manifest.vm_resources[i].agents[j].type
         IN Tagged(VmKey(i), a) =>
              /\ <<VmKey(i), a>> \in Range(iPrecheck.skipped)
              /\ ~HandedOver(VmKey(i), a)

\* The ids of the databases the snapshot holds under name k.
AdbIds(k) ==
  {Attributes(res).id :
     res \in {x \in GraphResources :
                /\ x.type = "oci_database_autonomous_database"
                /\ Attributes(x).display_name = k}}

\* The inventory lists a host for ADB target i, with the id of a database of
\* that name, the target's action and the defaults of the optional fields.
HostFor(inventory, i) ==
  LET target == iIn.manifest.adb_resources[i]
      k == target.logical_key
  IN /\ k \in Range(inventory.adb_instances)
     /\ k \in DOMAIN inventory.hostvars
     /\ inventory.hostvars[k].oci_ocid \in AdbIds(k)
     /\ inventory.hostvars[k].action = target.action
     /\ inventory.hostvars[k].wait_for_state = Get(target, "wait_for_state", TRUE)
     /\ inventory.hostvars[k].timeout_minutes = Get(target, "timeout_minutes", 30)

\* C21 as stated: for every ADB target whose name is a database of the
\* resource graph, each builder's inventory has a host of that name whose
\* hostvars carry the database's id as oci_ocid, the target's action, and
\* wait_for_state true and timeout_minutes 30 when the target omits them.
C21_AdbTargetHost ==
  (iPc = "done" /\ Fetched) =>
    \A i \in DOMAIN iIn.manifest.adb_resources :
      AdbKey(i) \in AdbGraphKeys =>
        /\ HostFor(iInventory, i)
        /\ iAdb.exit = 0
        /\ HostFor(iAdb.inventory, i)

\* ------------------------------------------- claims on the discovery scripts

\* The segments of the ledger key the claim describes, for an operation file
\* under {cloud}/{region}.
LedgerFileName(operation_type) == "ansible-state-" \o operation_type \o ".json"

Discovered == dPc = "done" /\ dOperation.exit = 0

\* C22 as stated: the ledger key is {bucket}/{cloud}/{region}/
\* ansible-state-{operation type}.json, the cloud segment directly after the
\* bucket segment.
C22_Original ==
  Discovered =>
    dOperation.outputs.state_key =
      Join(<<dIn.operation_args[3], dIn.operation_args[1],
             dOperation.outputs.region,
             LedgerFileName(dOperation.outputs.operation_type)>>)

\* C22 amended: the ledger key is the bucket, the segment "ansible", the
\* operation file's path up to the segment after its first segment equal to
\* the cloud, and ansible-state-{operation type}.json; for an operation file
\* under {cloud}/{region} that is
\* {bucket}/ansible/{cloud}/{region}/ansible-state-{operation type}.json.
C22_StateKeyShape ==
  Discovered =>
    LET cloud == dIn.operation_args[1]
        path == dIn.operation_args[2]
        bucket == dIn.operation_args[3]
        op == dIn.file.data.operation_type
        i == CHOOSE j \in DOMAIN path : path[j] = cloud /\ \A h \in 1..(j - 1) : path[h] # cloud
    IN /\ dOperation.outputs.state_key =
            Join(<<bucket, "ansible">> \o SubSeq(path, 1, i + 1)
                 \o <<LedgerFileName(op)>>)
       /\ path[1] = cloud =>
            dOperation.outputs.state_key =
              Join(<<bucket, "ansible", cloud, path[2], LedgerFileName(op)>>)

\* C22 witness: the key of an adb-lifecycle operation file under
\* oci/eu-frankfurt-1.
C22_Witness ==
  /\ Discovered
  /\ dOperation.outputs.state_key =
       "repo/ansible/oci/eu-frankfurt-1/ansible-state-adb-lifecycle.json"

\* C23 as stated: discover_backend.py called with a cloud and a bucket name,
\* where the cloud has a region folder, exits with 0 and reports the given
\* bucket name as the backend bucket.
C23_BucketArgumentAccepted ==
  ( /\ dPc \in {"operation", "done"}
    /\ Len(dIn.backend_args) = 2
    /\ FindRegionFolder(dIn.backend_args[1], dIn.dirs) # {None} )
  => /\ dBackend.exit = 0
     /\ dBackend.outputs.bucket_name = dIn.backend_args[2]

\* ---------------------------------------------- more claims on the pipeline

\* The logical keys of a ledger object, and its <<logical key, operation
\* type>> pairs.
EntryKeys(object) ==
  IF object.exists /\ object.parseable THEN DOMAIN object.data.resources ELSE {}

Pairs(object) ==
  {p \in EntryKeys(object) \X OpTypes : HasOp(object.data, p[1], p[2])}

\* Run r uploads in this step.
Uploads(r) == pc[r] = "upload" /\ pc'[r] = "done" /\ uploads'[r] = uploads[r] + 1

\* C24: with serialized runs, no step removes a logical key or a <<logical
\* key, operation type>> pair from a persisted ledger, and a key or pair
\* that appears is a target key of the run that uploads in that step, under
\* that run's operation type.
C24_EntriesNeverDeleted ==
  [][ serialized =>
        \A key \in LedgerKeys :
          /\ EntryKeys(store[key]) \subseteq EntryKeys(store'[key])
          /\ Pairs(store[key]) \subseteq Pairs(store'[key])
          /\ \A k \in EntryKeys(store'[key]) \ EntryKeys(store[key]) :
               \E r \in Runs : /\ Uploads(r) /\ cfg[r].state_key = key
                               /\ k \in TargetKeys(cfg[r].manifest)
          /\ \A p \in Pairs(store'[key]) \ Pairs(store[key]) :
               \E r \in Runs : /\ Uploads(r) /\ cfg[r].state_key = key
                               /\ p[1] \in TargetKeys(cfg[r].manifest)
                               /\ p[2] = OpOf(r) ]_vars

\* C24 witness: after serialized runs a persisted ledger holds the entries
\* of two logical keys, each merged by its own run.
C24_Witness ==
  /\ serialized
  /\ \E key \in LedgerKeys :
       /\ Cardinality(Pairs(store[key])) >= 2
       /\ \A p \in Pairs(store[key]) :
            \E r \in Runs : Uploaded(r) /\ HoldsRecordOf(store[key].data, r, p[1])

\* C25 as stated: while a run is between its build / load step and its
\* pre-check / update step, no step of another run changes the inventory
\* file or the ledger file that run reads, also when both run on one host.
C25_ViewsOwnedByOneRun ==
  [][ \A r \in Runs, s \in Runs :
        (r # s /\ pc'[r] # pc[r] /\ Active(s)) =>
          /\ inventoryFile'[s] = inventoryFile[s]
          /\ stateFile'[s] = stateFile[s] ]_vars

\* ------------------------------------- more claims on the inventory scripts

\* The instances of the snapshot in traversal order, each with the type of
\* its resource, its logical key and its id.
InstancesOf(resource) ==
  [i \in DOMAIN resource.instances |->
     [type |-> resource.type,
      key |-> Get(resource.instances[i].attributes, "display_name", resource.name),
      id |-> resource.instances[i].attributes.id]]

RECURSIVE Traversal(_)
Traversal(resources) ==
  IF resources = <<>> THEN <<>>
  ELSE InstancesOf(Head(resources)) \o Traversal(Tail(resources))

\* The last instance of the type and key in the traversal.
Latest(instances, type, key) ==
  LET same == {i \in DOMAIN instances :
                 instances[i].type = type /\ instances[i].key = key}
  IN instances[CHOOSE i \in same : \A j \in same : j <= i]

KindOf(type) == IF type = "oci_core_instance" THEN "compute" ELSE "adb"

\* C26 as stated: for every instance of the snapshot the parsed map holds,
\* for the instance's kind and logical key, the record of the latest
\* instance of that kind and key: a later instance of the same kind replaces
\* it, an instance of the other kind does not; and the hosts of
\* build_inventory carry the id of the latest database of their name.
C26_LastWriteWinsPerKind ==
  LET instances == Traversal(iIn.object.data.resources)
  IN /\ (Built /\ Fetched) =>
          \A i \in DOMAIN instances :
            /\ instances[i].key \in DOMAIN iResources
            /\ iResources[instances[i].key].type = KindOf(instances[i].type)
            /\ iResources[instances[i].key].ocid =
                 Latest(instances, instances[i].type, instances[i].key).id
     /\ (iPc = "done" /\ Fetched /\ iAdb.exit = 0) =>
          \A k \in DOMAIN iAdb.inventory.hostvars :
            iAdb.inventory.hostvars[k].oci_ocid =
              Latest(instances, "oci_database_autonomous_database", k).id

\* C27 as stated: every host of adb_instances was resolved against a
\* database record of the resource map, and every host of compute_instances
\* against a compute record.
C27_ResolvedAgainstOwnKind ==
  Built =>
    /\ \A k \in Range(iInventory.adb_instances) : iResources[k].type = "adb"
    /\ \A k \in Range(iInventory.compute_instances) :
         iResources[k].type = "compute"

\* The number of times k is listed in hosts.
Listed(hosts, k) == Cardinality({i \in DOMAIN hosts : hosts[i] = k})

\* C28 as stated: every listed host has hostvars, every hostvars key is
\* listed in exactly one of the two groups, and no host is listed more than
\* once in a group.
C28_GroupsMatchHostvars ==
  Built =>
    /\ InventoryHosts(iInventory) \subseteq DOMAIN iInventory.hostvars
    /\ \A k \in DOMAIN iInventory.hostvars :
         (k \in Range(iInventory.compute_instances))
           # (k \in Range(iInventory.adb_instances))
    /\ \A k \in InventoryHosts(iInventory) :
         /\ Listed(iInventory.compute_instances, k) <= 1
         /\ Listed(iInventory.adb_instances, k) <= 1

\* ---------------------------------------------- more claims on the pipeline

\* C29: runs of different operation types have different ledger keys, and
\* once a run has uploaded, the ledger under its key holds the record of
\* each of its targets for as long as every other run that has started is of
\* another operation type, whatever the interleaving of their steps.
C29_OperationTypesKeepApart ==
  /\ \A a \in Runs, b \in Runs :
       (cfg[a] # NoCfg /\ cfg[b] # NoCfg /\ OpOf(a) # OpOf(b)) =>
          cfg[a].state_key # cfg[b].state_key
  /\ \A a \in Runs :
       ( /\ Uploaded(a)
         /\ \A b \in Runs \ {a} : cfg[b] # NoCfg => OpOf(b) # OpOf(a) )
       => /\ Persisted(cfg[a].state_key)
          /\ \A k \in TargetKeys(cfg[a].manifest) :
               HoldsRecordOf(store[cfg[a].state_key].data, a, k)

\* C29 witness: two runs of different operation types on one host have both
\* uploaded, the one that merged first uploading last.
C29_Witness ==
  \E a \in Runs, b \in Runs :
    /\ Uploaded(a) /\ Uploaded(b)
    /\ OpOf(a) # OpOf(b)
    /\ cfg[a].host = cfg[b].host
    /\ mergeTime[a] < mergeTime[b]
    /\ uploadOrder = <<b, a>>

\* ------------------------------------------------------- claims on tagging

\* The pre-check of the current run has run.
Prechecked == tPc.run >= 1 /\ tPc.step \in {"tags", "idle"}

\* The inventory of the current run lists VM target k with the tags the
\* resource has now: the snapshot carried the current tags.
CarriesCurrentTags(k) ==
  /\ k \in DOMAIN tInventory.hostvars
  /\ tInventory.hostvars[k].resource_tags = tCloud.live[k].freeform_tags

\* The <<logical key, agent type>> pairs the pre-check reports as installed.
Reported == Range(tPrecheck.skipped)

\* The <<logical key, agent type>> pairs of the VM targets of the manifest.
AgentTargets ==
  UNION {{<<tIn.vm_resources[i].logical_key, tIn.vm_resources[i].agents[j].type>> :
            j \in DOMAIN tIn.vm_resources[i].agents} :
         i \in DOMAIN tIn.vm_resources}

====
